---------------------------- MODULE Spec2Model ----------------------------
(***************************************************************************)
(* State-machine model of github_word_drawer.py: the glyph table, the      *)
(* pattern grid, the grid-to-date mapping, run() with create_branch and    *)
(* create_commits, and clear_word_branches, over a small model of the git  *)
(* repository the script drives through subprocess.run.                    *)
(*                                                                         *)
(* Representation.  A Python str is a sequence of one-character strings.   *)
(* The filled mark U+2588 of the glyph rows is written "X".  A datetime is *)
(* a record [day, hour, minute, second] whose day is the proleptic         *)
(* Gregorian ordinal (date.toordinal()).  Python's 0-based list indices    *)
(* are kept in the loop variables; sequences are indexed at index + 1.     *)
(***************************************************************************)
EXTENDS Integers, Sequences, FiniteSets

(***************************************************************************)
(* Bounds of the model.                                                    *)
(***************************************************************************)
MaxWordLen == 2
MaxCommitsPerDate == 3
NumNowDays == 7
FirstNowDay == 739925
DenseCommitsPerDate == 25

(***************************************************************************)
(* Characters and str methods.                                             *)
(***************************************************************************)
LowerCase ==
  << "a","b","c","d","e","f","g","h","i","j","k","l","m",
     "n","o","p","q","r","s","t","u","v","w","x","y","z" >>

UpperCase ==
  << "A","B","C","D","E","F","G","H","I","J","K","L","M",
     "N","O","P","Q","R","S","T","U","V","W","X","Y","Z" >>

Digits == << "0","1","2","3","4","5","6","7","8","9" >>

Range(s) == { s[i] : i \in DOMAIN s }

Whitespace == { " ", "\t", "\n" }

IsAlpha(c) == c \in Range(LowerCase) \cup Range(UpperCase)

IsSpace(c) == c \in Whitespace

IsDigit(c) == c \in Range(Digits)

UpperChar(c) ==
  IF c \in Range(LowerCase)
    THEN UpperCase[CHOOSE i \in DOMAIN LowerCase : LowerCase[i] = c]
    ELSE c

LowerChar(c) ==
  IF c \in Range(UpperCase)
    THEN LowerCase[CHOOSE i \in DOMAIN UpperCase : UpperCase[i] = c]
    ELSE c

\* str.upper()
Upper(s) == [i \in DOMAIN s |-> UpperChar(s[i])]

\* str.lower()
Lower(s) == [i \in DOMAIN s |-> LowerChar(s[i])]

\* str.replace(old, new) for one-character old and new
Replace(s, old, new) == [i \in DOMAIN s |-> IF s[i] = old THEN new ELSE s[i]]

\* str.lstrip(chars)
LStripChars(s, chars) ==
  LET kept == { i \in DOMAIN s : s[i] \notin chars }
  IN  IF kept = {} THEN << >>
      ELSE SubSeq(s, CHOOSE i \in kept : \A j \in kept : i <= j, Len(s))

\* str.rstrip(chars)
RStripChars(s, chars) ==
  LET kept == { i \in DOMAIN s : s[i] \notin chars }
  IN  IF kept = {} THEN << >>
      ELSE SubSeq(s, 1, CHOOSE i \in kept : \A j \in kept : i >= j)

\* str.strip()
Strip(s) == RStripChars(LStripChars(s, Whitespace), Whitespace)

\* str.startswith(prefix)
StartsWith(s, prefix) ==
  Len(s) >= Len(prefix) /\ SubSeq(s, 1, Len(prefix)) = prefix

\* needle in haystack (substring test)
Contains(hay, needle) ==
  \E i \in 1..(Len(hay) - Len(needle) + 1) :
    SubSeq(hay, i, i + Len(needle) - 1) = needle

RECURSIVE JoinLines(_)
\* the text made of the given lines, each ended by a newline
JoinLines(lines) ==
  IF lines = << >> THEN << >>
  ELSE Head(lines) \o << "\n" >> \o JoinLines(Tail(lines))

\* str.splitlines(): the text between line ends, a last line without a
\* line end included
SplitLines(text) ==
  LET IsLineEnd(i) == text[i] = "\n"
      ends == SelectSeq([i \in 1..Len(text) |-> i], IsLineEnd)
      count == IF text # << >> /\ text[Len(text)] # "\n"
                 THEN Len(ends) + 1 ELSE Len(ends)
  IN  [k \in 1..count |->
        SubSeq(text,
               IF k = 1 THEN 1 ELSE ends[k - 1] + 1,
               IF k <= Len(ends) THEN ends[k] - 1 ELSE Len(text))]

(***************************************************************************)
(* LETTER_PATTERNS: the glyph table.                                       *)
(***************************************************************************)
FILLED == "X"

PatternKeys == Range(UpperCase) \cup { " " }

Glyph(c) ==
  CASE c = "A" -> << <<" ","X","X","X"," ">>,
                  <<"X"," "," "," ","X">>,
                  <<"X"," "," "," ","X">>,
                  <<"X","X","X","X","X">>,
                  <<"X"," "," "," ","X">>,
                  <<"X"," "," "," ","X">>,
                  <<" "," "," "," "," ">> >>
   [] c = "B" -> << <<"X","X","X","X"," ">>,
                  <<"X"," "," "," ","X">>,
                  <<"X"," "," "," ","X">>,
                  <<"X","X","X","X"," ">>,
                  <<"X"," "," "," ","X">>,
                  <<"X"," "," "," ","X">>,
                  <<"X","X","X","X"," ">> >>
   [] c = "C" -> << <<" ","X","X","X"," ">>,
                  <<"X"," "," "," ","X">>,
                  <<"X"," "," "," "," ">>,
                  <<"X"," "," "," "," ">>,
                  <<"X"," "," "," "," ">>,
                  <<"X"," "," "," ","X">>,
                  <<" ","X","X","X"," ">> >>
   [] c = "D" -> << <<"X","X","X","X"," ">>,
                  <<"X"," "," "," ","X">>,
                  <<"X"," "," "," ","X">>,
                  <<"X"," "," "," ","X">>,
                  <<"X"," "," "," ","X">>,
                  <<"X"," "," "," ","X">>,
                  <<"X","X","X","X"," ">> >>
   [] c = "E" -> << <<"X","X","X","X","X">>,
                  <<"X"," "," "," "," ">>,
                  <<"X"," "," "," "," ">>,
                  <<"X","X","X","X"," ">>,
                  <<"X"," "," "," "," ">>,
                  <<"X"," "," "," "," ">>,
                  <<"X","X","X","X","X">> >>
   [] c = "F" -> << <<"X","X","X","X","X">>,
                  <<"X"," "," "," "," ">>,
                  <<"X"," "," "," "," ">>,
                  <<"X","X","X","X"," ">>,
                  <<"X"," "," "," "," ">>,
                  <<"X"," "," "," "," ">>,
                  <<"X"," "," "," "," ">> >>
   [] c = "G" -> << <<" ","X","X","X"," ">>,
                  <<"X"," "," "," ","X">>,
                  <<"X"," "," "," "," ">>,
                  <<"X"," ","X","X","X">>,
                  <<"X"," "," "," ","X">>,
                  <<"X"," "," "," ","X">>,
                  <<" ","X","X","X"," ">> >>
   [] c = "H" -> << <<"X"," "," "," ","X">>,
                  <<"X"," "," "," ","X">>,
                  <<"X"," "," "," ","X">>,
                  <<"X","X","X","X","X">>,
                  <<"X"," "," "," ","X">>,
                  <<"X"," "," "," ","X">>,
                  <<"X"," "," "," ","X">> >>
   [] c = "I" -> << <<"X","X","X","X","X">>,
                  <<" "," ","X"," "," ">>,
                  <<" "," ","X"," "," ">>,
                  <<" "," ","X"," "," ">>,
                  <<" "," ","X"," "," ">>,
                  <<" "," ","X"," "," ">>,
                  <<"X","X","X","X","X">> >>
   [] c = "J" -> << <<"X","X","X","X","X">>,
                  <<" "," "," "," ","X">>,
                  <<" "," "," "," ","X">>,
                  <<" "," "," "," ","X">>,
                  <<" "," "," "," ","X">>,
                  <<"X"," "," "," ","X">>,
                  <<" ","X","X","X"," ">> >>
   [] c = "K" -> << <<"X"," "," "," ","X">>,
                  <<"X"," "," ","X"," ">>,
                  <<"X"," ","X"," "," ">>,
                  <<"X","X"," "," "," ">>,
                  <<"X"," ","X"," "," ">>,
                  <<"X"," "," ","X"," ">>,
                  <<"X"," "," "," ","X">> >>
   [] c = "L" -> << <<"X"," "," "," "," ">>,
                  <<"X"," "," "," "," ">>,
                  <<"X"," "," "," "," ">>,
                  <<"X"," "," "," "," ">>,
                  <<"X"," "," "," "," ">>,
                  <<"X"," "," "," "," ">>,
                  <<"X","X","X","X","X">> >>
   [] c = "M" -> << <<"X"," "," "," ","X">>,
                  <<"X","X"," ","X","X">>,
                  <<"X"," ","X"," ","X">>,
                  <<"X"," "," "," ","X">>,
                  <<"X"," "," "," ","X">>,
                  <<"X"," "," "," ","X">>,
                  <<"X"," "," "," ","X">> >>
   [] c = "N" -> << <<"X"," "," "," ","X">>,
                  <<"X","X"," "," ","X">>,
                  <<"X"," ","X"," ","X">>,
                  <<"X"," "," ","X","X">>,
                  <<"X"," "," "," ","X">>,
                  <<"X"," "," "," ","X">>,
                  <<"X"," "," "," ","X">> >>
   [] c = "O" -> << <<" ","X","X","X"," ">>,
                  <<"X"," "," "," ","X">>,
                  <<"X"," "," "," ","X">>,
                  <<"X"," "," "," ","X">>,
                  <<"X"," "," "," ","X">>,
                  <<"X"," "," "," ","X">>,
                  <<" ","X","X","X"," ">> >>
   [] c = "P" -> << <<"X","X","X","X"," ">>,
                  <<"X"," "," "," ","X">>,
                  <<"X"," "," "," ","X">>,
                  <<"X","X","X","X"," ">>,
                  <<"X"," "," "," "," ">>,
                  <<"X"," "," "," "," ">>,
                  <<"X"," "," "," "," ">> >>
   [] c = "Q" -> << <<" ","X","X","X"," ">>,
                  <<"X"," "," "," ","X">>,
                  <<"X"," "," "," ","X">>,
                  <<"X"," "," "," ","X">>,
                  <<"X"," ","X"," ","X">>,
                  <<"X"," "," ","X"," ">>,
                  <<" ","X","X","X","X">> >>
   [] c = "R" -> << <<"X","X","X","X"," ">>,
                  <<"X"," "," "," ","X">>,
                  <<"X"," "," "," ","X">>,
                  <<"X","X","X","X"," ">>,
                  <<"X"," ","X"," "," ">>,
                  <<"X"," "," ","X"," ">>,
                  <<"X"," "," "," ","X">> >>
   [] c = "S" -> << <<" ","X","X","X"," ">>,
                  <<"X"," "," "," ","X">>,
                  <<"X"," "," "," "," ">>,
                  <<" ","X","X","X"," ">>,
                  <<" "," "," "," ","X">>,
                  <<"X"," "," "," ","X">>,
                  <<" ","X","X","X"," ">> >>
   [] c = "T" -> << <<"X","X","X","X","X">>,
                  <<" "," ","X"," "," ">>,
                  <<" "," ","X"," "," ">>,
                  <<" "," ","X"," "," ">>,
                  <<" "," ","X"," "," ">>,
                  <<" "," ","X"," "," ">>,
                  <<" "," ","X"," "," ">> >>
   [] c = "U" -> << <<"X"," "," "," ","X">>,
                  <<"X"," "," "," ","X">>,
                  <<"X"," "," "," ","X">>,
                  <<"X"," "," "," ","X">>,
                  <<"X"," "," "," ","X">>,
                  <<"X"," "," "," ","X">>,
                  <<" ","X","X","X"," ">> >>
   [] c = "V" -> << <<"X"," "," "," ","X">>,
                  <<"X"," "," "," ","X">>,
                  <<"X"," "," "," ","X">>,
                  <<"X"," "," "," ","X">>,
                  <<"X"," "," "," ","X">>,
                  <<" ","X"," ","X"," ">>,
                  <<" "," ","X"," "," ">> >>
   [] c = "W" -> << <<"X"," "," "," ","X">>,
                  <<"X"," "," "," ","X">>,
                  <<"X"," "," "," ","X">>,
                  <<"X"," "," "," ","X">>,
                  <<"X"," ","X"," ","X">>,
                  <<"X","X"," ","X","X">>,
                  <<"X"," "," "," ","X">> >>
   [] c = "X" -> << <<"X"," "," "," ","X">>,
                  <<" ","X"," ","X"," ">>,
                  <<" "," ","X"," "," ">>,
                  <<" "," ","X"," "," ">>,
                  <<" "," ","X"," "," ">>,
                  <<" ","X"," ","X"," ">>,
                  <<"X"," "," "," ","X">> >>
   [] c = "Y" -> << <<"X"," "," "," ","X">>,
                  <<"X"," "," "," ","X">>,
                  <<" ","X"," ","X"," ">>,
                  <<" "," ","X"," "," ">>,
                  <<" "," ","X"," "," ">>,
                  <<" "," ","X"," "," ">>,
                  <<" "," ","X"," "," ">> >>
   [] c = "Z" -> << <<"X","X","X","X","X">>,
                  <<" "," "," "," ","X">>,
                  <<" "," "," ","X"," ">>,
                  <<" "," ","X"," "," ">>,
                  <<" ","X"," "," "," ">>,
                  <<"X"," "," "," "," ">>,
                  <<"X","X","X","X","X">> >>
   [] c = " " -> << <<" "," "," "," "," ">>,
                  <<" "," "," "," "," ">>,
                  <<" "," "," "," "," ">>,
                  <<" "," "," "," "," ">>,
                  <<" "," "," "," "," ">>,
                  <<" "," "," "," "," ">>,
                  <<" "," "," "," "," ">> >>

LETTER_PATTERNS == [c \in PatternKeys |-> Glyph(c)]

(***************************************************************************)
(* datetime, timedelta and strptime.                                       *)
(***************************************************************************)
DateTime(d, h, m, s) == [day |-> d, hour |-> h, minute |-> m, second |-> s]

\* datetime +/- timedelta(days=n)
AddDays(dt, n) == [dt EXCEPT !.day = @ + n]

\* datetime.weekday(): Monday is 0 and Sunday is 6; ordinal 1 is a Monday
Weekday(dt) == (dt.day + 6) % 7

\* the order of datetime values used by sorted()
DtLess(a, b) ==
  \/ a.day < b.day
  \/ a.day = b.day /\ a.hour < b.hour
  \/ a.day = b.day /\ a.hour = b.hour /\ a.minute < b.minute
  \/ a.day = b.day /\ a.hour = b.hour /\ a.minute = b.minute
       /\ a.second < b.second

DigitVal(c) == (CHOOSE i \in DOMAIN Digits : Digits[i] = c) - 1

IsLeap(y) == y % 4 = 0 /\ (y % 100 # 0 \/ y % 400 = 0)

DaysInMonth(y, m) ==
  IF m = 2 THEN (IF IsLeap(y) THEN 29 ELSE 28)
  ELSE IF m \in {4, 6, 9, 11} THEN 30 ELSE 31

RECURSIVE DaysBeforeMonth(_, _)
DaysBeforeMonth(y, m) ==
  IF m = 1 THEN 0 ELSE DaysBeforeMonth(y, m - 1) + DaysInMonth(y, m - 1)

\* date(y, m, d).toordinal()
ToOrdinal(y, m, d) ==
  365 * (y - 1) + ((y - 1) \div 4) - ((y - 1) \div 100) + ((y - 1) \div 400)
    + DaysBeforeMonth(y, m) + d

\* datetime.strptime(s, "%Y-%m-%d") on zero-padded input; ok is FALSE where
\* strptime raises ValueError
Strptime(s) ==
  LET shaped == /\ Len(s) = 10
                /\ s[5] = "-" /\ s[8] = "-"
                /\ \A i \in {1, 2, 3, 4, 6, 7, 9, 10} : IsDigit(s[i])
      y == 1000 * DigitVal(s[1]) + 100 * DigitVal(s[2])
             + 10 * DigitVal(s[3]) + DigitVal(s[4])
      m == 10 * DigitVal(s[6]) + DigitVal(s[7])
      d == 10 * DigitVal(s[9]) + DigitVal(s[10])
  IN  IF shaped /\ y >= 1 /\ m \in 1..12 /\ d \in 1..DaysInMonth(y, m)
        THEN [ok |-> TRUE, value |-> DateTime(ToOrdinal(y, m, d), 0, 0, 0)]
        ELSE [ok |-> FALSE, value |-> DateTime(0, 0, 0, 0)]

(***************************************************************************)
(* GitHubWordDrawer._parse_start_date.  start_date is << >> when it is     *)
(* None or the empty string: both are false in "if start_date:".           *)
(***************************************************************************)
\* faulty variant: the case days_since_sunday == 7 not reset to 0
DaysSinceSundayNoWrap(one_year_ago) == Weekday(one_year_ago) + 1

DaysSinceSunday(one_year_ago) ==
  LET days_since_sunday == Weekday(one_year_ago) + 1
  IN  IF days_since_sunday = 7 THEN 0 ELSE days_since_sunday

DefaultStartDate(now_) ==
  LET one_year_ago == AddDays(now_, -365)
  IN  AddDays(one_year_ago, -DaysSinceSunday(one_year_ago))

ParseStartDate(start_date_, now_) ==
  IF start_date_ # << >>
    THEN Strptime(start_date_)
    ELSE [ok |-> TRUE, value |-> DefaultStartDate(now_)]

(***************************************************************************)
(* GitHubWordDrawer._create_pattern_grid.                                  *)
(***************************************************************************)
LookupPattern(char) ==
  IF char \in DOMAIN LETTER_PATTERNS
    THEN LETTER_PATTERNS[char]
    ELSE LETTER_PATTERNS[" "]

LetterPatterns(word_) == [i \in DOMAIN word_ |-> LookupPattern(word_[i])]

RECURSIVE SumPatternWidths(_)
SumPatternWidths(letter_patterns) ==
  IF letter_patterns = << >> THEN 0
  ELSE Len(Head(letter_patterns)[1]) + SumPatternWidths(Tail(letter_patterns))

\* faulty variant: a separator counted after the last glyph too
TotalWidthTrailingGap(letter_patterns) ==
  SumPatternWidths(letter_patterns) + Len(letter_patterns)

TotalWidth(letter_patterns) ==
  SumPatternWidths(letter_patterns) + Len(letter_patterns) - 1

BlankGrid(total_width) == [row \in 1..7 |-> [c \in 1..total_width |-> FALSE]]

\* the two inner loops: one glyph written at col_offset
FillPattern(grid_, pattern, col_offset) ==
  LET pattern_width == Len(pattern[1])
  IN  [row \in DOMAIN grid_ |->
        [c \in DOMAIN grid_[row] |->
          IF \E col \in 0..(pattern_width - 1) :
               /\ col_offset + col + 1 = c
               /\ pattern[row][col + 1] = FILLED
            THEN TRUE
            ELSE grid_[row][c]]]

\* faulty variant: no spacing between letters
ColumnAdvanceNoGap(pattern) == Len(pattern[1])

\* col_offset += pattern_width + 1
ColumnAdvance(pattern) == Len(pattern[1]) + 1

RECURSIVE FillGrid(_, _, _)
FillGrid(grid_, letter_patterns, col_offset) ==
  IF letter_patterns = << >> THEN grid_
  ELSE FillGrid(FillPattern(grid_, Head(letter_patterns), col_offset),
                Tail(letter_patterns),
                col_offset + ColumnAdvance(Head(letter_patterns)))

CreatePatternGrid(word_) ==
  IF word_ = << >> THEN << >>
  ELSE LET letter_patterns == LetterPatterns(word_)
       IN  FillGrid(BlankGrid(TotalWidth(letter_patterns)), letter_patterns, 0)

(***************************************************************************)
(* GitHubWordDrawer._get_commit_dates.                                     *)
(***************************************************************************)
\* faulty variant: weeks and days exchanged
CommitDateTransposed(start_date_, week, day) ==
  AddDays(start_date_, 7 * day + week)

\* self.start_date + timedelta(weeks=week, days=day)
CommitDate(start_date_, week, day) == AddDays(start_date_, 7 * week + day)

\* faulty variant: sorted(list, reverse=True)
SortedDescending(list) ==
  LET position == [i \in DOMAIN list |->
                    Cardinality({ j \in DOMAIN list :
                                    \/ DtLess(list[i], list[j])
                                    \/ j < i /\ ~DtLess(list[j], list[i]) }) + 1]
  IN  [p \in DOMAIN list |-> list[CHOOSE i \in DOMAIN list : position[i] = p]]

\* sorted(list): ascending and stable.  An element goes to the position
\* after the smaller ones and the equal ones that precede it.
Sorted(list) ==
  LET position == [i \in DOMAIN list |->
                    Cardinality({ j \in DOMAIN list :
                                    \/ DtLess(list[j], list[i])
                                    \/ j < i /\ ~DtLess(list[i], list[j]) }) + 1]
  IN  [p \in DOMAIN list |-> list[CHOOSE i \in DOMAIN list : position[i] = p]]

\* the nested loops "for week in range(num_weeks): for day in range(7)":
\* the cells in scan order, and one appended date for each true cell
ScanGrid(grid_, start_date_) ==
  LET num_weeks == Len(grid_[1])
      cells == [k \in 1..(7 * num_weeks) |->
                 [week |-> (k - 1) \div 7, day |-> (k - 1) % 7]]
      IsSet(cell) == grid_[cell.day + 1][cell.week + 1]
      set == SelectSeq(cells, IsSet)
  IN  [i \in DOMAIN set |-> CommitDate(start_date_, set[i].week, set[i].day)]

GetCommitDates(grid_, start_date_) ==
  IF grid_ = << >> \/ grid_[1] = << >> THEN << >>
  ELSE Sorted(ScanGrid(grid_, start_date_))

(***************************************************************************)
(* GitHubWordDrawer.create_commits: the time of day of one commit.         *)
(***************************************************************************)
Hours(commit_num_, commits_per_date_) == (commit_num_ * 24) \div commits_per_date_

Minutes(commit_num_) == (commit_num_ * 60) % 60

\* commit_date.replace(hour=hours, minute=minutes, second=0)
CommitDateTime(commit_date, commit_num_, commits_per_date_) ==
  DateTime(commit_date.day, Hours(commit_num_, commits_per_date_),
           Minutes(commit_num_), 0)

(***************************************************************************)
(* The git repository and the commands the script runs on it.              *)
(***************************************************************************)
Master == << "m","a","s","t","e","r" >>

Main_ == << "m","a","i","n" >>

WordPrefix == << "w","o","r","d","-" >>

WordH == WordPrefix \o << "h" >>

WordHI == WordPrefix \o << "h","i" >>

Words_ == << "w","o","r","d","s" >>

\* HEAD of a detached checkout: "git branch --show-current" prints nothing
Detached == << >>

DetachedLine ==
  << "*"," ","(","H","E","A","D"," ","d","e","t","a","c","h","e","d"," ",
     "a","t"," ","1","a","2","b","3","c","4",")" >>

\* the branches of the modelled repositories, in the order git lists them
BranchOrder == << Main_, Master, WordH, WordHI, Words_ >>

RECURSIVE BranchLines(_, _)
\* one line per listed branch: "* name" for the checked-out one, "  name"
\* for the others
BranchLines(repo_, names) ==
  IF names = << >> THEN << >>
  ELSE LET b == Head(names)
           rest == BranchLines(repo_, Tail(names))
       IN  IF b \notin repo_.branches THEN rest
           ELSE << (IF b = repo_.current THEN << "*"," " >> ELSE << " "," " >>)
                     \o b >> \o rest

\* stdout of "git branch"
GitBranchStdout(repo_) ==
  JoinLines((IF repo_.current = Detached THEN << DetachedLine >> ELSE << >>)
              \o BranchLines(repo_, BranchOrder))

\* stdout of "git branch --list <name>"
GitBranchListStdout(repo_, name) == JoinLines(BranchLines(repo_, << name >>))

\* stdout of "git branch --show-current"
GitShowCurrentStdout(repo_) ==
  IF repo_.current = Detached THEN << >> ELSE repo_.current \o << "\n" >>

(***************************************************************************)
(* Inputs.                                                                 *)
(***************************************************************************)
WordChars == { "h", "I", " ", "1" }

Words(maxLen) == UNION { [1..n -> WordChars] : n \in 0..maxLen }

Sunday2024 == << "2","0","2","4","-","0","1","-","0","7" >>

Wednesday2024 == << "2","0","2","4","-","0","1","-","1","0" >>

NoSuchDay == << "2","0","2","4","-","0","2","-","3","0" >>

WrongFormat == << "0","7","/","0","1","/","2","0","2","4" >>

StartDateChoices == { << >>, Sunday2024, Wednesday2024, NoSuchDay, WrongFormat }

ResponseChoices ==
  { << "y" >>, << " ","Y"," " >>, << "n" >>, << >>, << "y","e","s" >> }

ClockAt(d) == DateTime(d, 14, 30, 45)

NoGrid == << >>

NoDates == << >>

NoHistory ==
  [ran |-> {}, failures |-> {}, ranAfter |-> {}, reported |-> {},
   saidAfter |-> {},
   answer |-> "none", wrote |-> FALSE, branchReady |-> FALSE,
   deleteLog |-> << >>]

VARIABLES
  args,             \* the parsed command line / the constructor's arguments
  clock,            \* what datetime.now() returns
  pc,               \* the statement the program is at
  word,             \* self.word
  start_date,       \* self.start_date
  commits_per_date, \* self.commits_per_date
  grid,             \* run(): grid
  commit_dates,     \* run(): commit_dates
  branch_name,      \* create_branch(): branch_name
  date_idx,         \* create_commits(): index of the outer loop
  commit_num,       \* create_commits(): index of the inner loop
  commit_counter,   \* create_commits(): commit_counter
  repo,             \* the git repository: branches, HEAD, commits made
  word_branches,    \* clear_word_branches(): word_branches
  current_branch,   \* clear_word_branches(): current_branch
  branch_idx,       \* clear_word_branches(): position of the deletion loop
  deleted_count,    \* clear_word_branches(): deleted_count
  hist              \* what has been run, failed, printed and answered

vars ==
  << args, clock, pc, word, start_date, commits_per_date, grid, commit_dates,
     branch_name, date_idx, commit_num, commit_counter, repo, word_branches,
     current_branch, branch_idx, deleted_count, hist >>

objVars == << word, start_date, commits_per_date >>

runVars == << grid, commit_dates >>

loopVars == << date_idx, commit_num, commit_counter >>

clearVars == << word_branches, current_branch, branch_idx, deleted_count >>

Locals0 ==
  /\ pc = "start"
  /\ word = << >>
  /\ start_date = DateTime(0, 0, 0, 0)
  /\ commits_per_date = 0
  /\ grid = NoGrid
  /\ commit_dates = NoDates
  /\ branch_name = << >>
  /\ date_idx = 0
  /\ commit_num = 0
  /\ commit_counter = 0
  /\ word_branches = << >>
  /\ current_branch = << >>
  /\ branch_idx = 0
  /\ deleted_count = 0
  /\ hist = NoHistory

\* a drawing run: python github_word_drawer.py WORD [--start-date D]
\* [--commits-per-date M] [--preview], in a repository on master that
\* already holds the branch word-h
InitRun(words, startDates, perDate, clockDays) ==
  /\ args \in [word : words, start_date : startDates,
               commits_per_date : perDate, preview : BOOLEAN,
               clear_branches : {FALSE}]
  /\ clock \in { ClockAt(d) : d \in clockDays }
  /\ repo = [branches |-> {Master, WordH}, current |-> Master,
             commits |-> << >>]
  /\ Locals0

\* python github_word_drawer.py --clear-branches, in any repository
InitClear ==
  /\ args = [word |-> << >>, start_date |-> << >>, commits_per_date |-> 5,
             preview |-> FALSE, clear_branches |-> TRUE]
  /\ clock = ClockAt(FirstNowDay)
  /\ \E bs \in (SUBSET Range(BranchOrder)) \ {{}} :
       \E cur \in bs \cup {Detached} :
         repo = [branches |-> bs, current |-> cur, commits |-> << >>]
  /\ Locals0

Init ==
  \/ InitRun(Words(MaxWordLen), StartDateChoices, 0..MaxCommitsPerDate,
             {FirstNowDay})
  \/ InitClear

(***************************************************************************)
(* Bookkeeping of one subprocess.run(['git', ...]) call.                   *)
(***************************************************************************)
Git(h, kind, ok) ==
  [h EXCEPT !.ran = @ \cup {kind},
            !.ranAfter = @ \cup h.failures,
            !.failures = IF ok THEN @ ELSE @ \cup {kind}]

Say(h, message) ==
  [h EXCEPT !.reported = @ \cup {message}, !.saidAfter = @ \cup h.failures]

(***************************************************************************)
(* main() and GitHubWordDrawer.__init__.                                   *)
(***************************************************************************)
ValidWord(word_) == \A i \in DOMAIN word_ : IsAlpha(word_[i]) \/ IsSpace(word_[i])

\* GitHubWordDrawer(args.word, args.start_date, args.commits_per_date)
\* followed by the call of run(); a ValueError of strptime is not caught
Construct ==
  LET parsed == ParseStartDate(args.start_date, clock)
  IN  /\ word' = Upper(args.word)
      /\ IF parsed.ok
           THEN /\ start_date' = parsed.value
                /\ commits_per_date' = args.commits_per_date
                /\ pc' = "run_grid"
           ELSE /\ UNCHANGED << start_date, commits_per_date >>
                /\ pc' = "raised"

Main ==
  /\ pc = "start"
  /\ IF args.clear_branches
       THEN pc' = "clear_list" /\ UNCHANGED objVars
       ELSE IF args.word = << >>
         THEN pc' = "exit2" /\ UNCHANGED objVars
         ELSE IF ~ValidWord(args.word)
           THEN pc' = "exit1" /\ UNCHANGED objVars
           ELSE Construct
  /\ UNCHANGED << args, clock, runVars, branch_name, loopVars, repo,
                  clearVars, hist >>

\* the class used as a library: GitHubWordDrawer(word, ...).run(preview)
NewDrawer ==
  /\ pc = "start"
  /\ ~args.clear_branches
  /\ Construct
  /\ UNCHANGED << args, clock, runVars, branch_name, loopVars, repo,
                  clearVars, hist >>

(***************************************************************************)
(* GitHubWordDrawer.run.                                                   *)
(***************************************************************************)
Run_CreateGrid ==
  /\ pc = "run_grid"
  /\ grid' = CreatePatternGrid(word)
  /\ pc' = "run_dates"
  /\ UNCHANGED << args, clock, objVars, commit_dates, branch_name, loopVars,
                  repo, clearVars, hist >>

Run_GetCommitDates ==
  /\ pc = "run_dates"
  /\ commit_dates' = GetCommitDates(grid, start_date)
  /\ pc' = "run_preview"
  /\ UNCHANGED << args, clock, objVars, grid, branch_name, loopVars, repo,
                  clearVars, hist >>

\* draw_preview() builds the grid again and prints it
Run_DrawPreview ==
  /\ pc = "run_preview"
  /\ pc' = "run_check"
  /\ UNCHANGED << args, clock, objVars, runVars, branch_name, loopVars, repo,
                  clearVars, hist >>

\* faulty variant: the empty date list is not tested
AfterPreviewNoEmptyTest(commit_dates_, preview_only) ==
  IF preview_only THEN "returned" ELSE "run_prompt"

\* the two early returns of run() after draw_preview()
AfterPreview(commit_dates_, preview_only) ==
  IF commit_dates_ = << >> THEN "returned"
  ELSE IF preview_only THEN "returned"
  ELSE "run_prompt"

Run_CheckDates ==
  /\ pc = "run_check"
  /\ pc' = AfterPreview(commit_dates, args.preview)
  /\ UNCHANGED << args, clock, objVars, runVars, branch_name, loopVars, repo,
                  clearVars, hist >>

\* faulty variant: anything but n is taken as consent
ConfirmedUnlessNo(answer) == Lower(Strip(answer)) # << "n" >>

\* input(...).strip().lower() and the test "response != 'y'"
Confirmed(answer) == Lower(Strip(answer)) = << "y" >>

\* what the user typed, trimmed and lower-cased, is y
TypedYes(answer) == Strip(Lower(answer)) = << "y" >>

Answered(h, answer) ==
  [h EXCEPT !.answer = IF TypedYes(answer) THEN "yes" ELSE "other"]

Run_Prompt ==
  /\ pc = "run_prompt"
  /\ \E answer \in ResponseChoices :
       /\ hist' = Answered(hist, answer)
       /\ pc' = IF Confirmed(answer) THEN "cb_list" ELSE "returned"
  /\ UNCHANGED << args, clock, objVars, runVars, branch_name, loopVars, repo,
                  clearVars >>

Run_Done ==
  /\ pc = "run_done"
  /\ hist' = Say(hist, "Done")
  /\ pc' = "returned"
  /\ UNCHANGED << args, clock, objVars, runVars, branch_name, loopVars, repo,
                  clearVars >>

(***************************************************************************)
(* GitHubWordDrawer.create_branch.                                         *)
(***************************************************************************)
DefaultBranchName(word_) == WordPrefix \o Replace(Lower(word_), " ", "-")

\* faulty variant: the handler prints and does not exit
BranchErrorIgnored(ok, next) == next

\* except subprocess.CalledProcessError: print, sys.exit(1)
BranchError(ok, next) == IF ok THEN next ELSE "exit1"

\* "git branch --list" runs without check=True: its exit status is not read
CreateBranch_List ==
  /\ pc = "cb_list"
  /\ branch_name' = DefaultBranchName(word)
  /\ \E ok \in BOOLEAN :
       LET stdout == IF ok THEN GitBranchListStdout(repo, branch_name')
                     ELSE << >>
       IN  /\ hist' = Git(hist, "branch --list", ok)
           /\ pc' = IF Contains(stdout, branch_name')
                      THEN "cb_checkout" ELSE "cb_checkout_b"
  /\ UNCHANGED << args, clock, objVars, runVars, loopVars, repo, clearVars >>

CreateBranch_Checkout ==
  /\ pc = "cb_checkout"
  /\ \E ok \in BOOLEAN :
       /\ ok => branch_name \in repo.branches
       /\ hist' = [Git(hist, "checkout", ok) EXCEPT !.branchReady = ok]
       /\ repo' = IF ok THEN [repo EXCEPT !.current = branch_name] ELSE repo
       /\ pc' = BranchError(ok, "cc_begin")
  /\ UNCHANGED << args, clock, objVars, runVars, branch_name, loopVars,
                  clearVars >>

CreateBranch_CheckoutNew ==
  /\ pc = "cb_checkout_b"
  /\ \E ok \in BOOLEAN :
       /\ ok => branch_name \notin repo.branches
       /\ hist' = IF ok
                    THEN [Say(Git(hist, "checkout -b", ok), "Created branch")
                            EXCEPT !.branchReady = TRUE]
                    ELSE Git(hist, "checkout -b", ok)
       /\ repo' = IF ok
                    THEN [repo EXCEPT !.branches = @ \cup {branch_name},
                                      !.current = branch_name]
                    ELSE repo
       /\ pc' = BranchError(ok, "cc_begin")
  /\ UNCHANGED << args, clock, objVars, runVars, branch_name, loopVars,
                  clearVars >>

(***************************************************************************)
(* GitHubWordDrawer.create_commits.                                        *)
(***************************************************************************)
\* check=True with no handler: CalledProcessError leaves create_commits
\* and run() and ends the program with a traceback
Uncaught(ok, next) == IF ok THEN next ELSE "raised"

\* the first iteration of "for date_idx ... for commit_num in range(M)"
CreateCommits_Begin ==
  /\ pc = "cc_begin"
  /\ date_idx' = 0
  /\ commit_num' = 0
  /\ commit_counter' = 0
  /\ pc' = IF commit_dates = << >> THEN "run_done"
           ELSE IF commits_per_date <= 0 THEN "cc_done"
           ELSE "cc_add"
  /\ UNCHANGED << args, clock, objVars, runVars, branch_name, repo,
                  clearVars, hist >>

\* commit_counter += 1, the file is written, git add
CreateCommits_Add ==
  /\ pc = "cc_add"
  /\ commit_counter' = commit_counter + 1
  /\ \E ok \in BOOLEAN :
       /\ hist' = [Git(hist, "add", ok) EXCEPT !.wrote = TRUE]
       /\ pc' = Uncaught(ok, "cc_commit")
  /\ UNCHANGED << args, clock, objVars, runVars, branch_name, date_idx,
                  commit_num, repo, clearVars >>

\* git commit with GIT_AUTHOR_DATE and GIT_COMMITTER_DATE, then the next
\* iteration of the loops
CreateCommits_Commit ==
  /\ pc = "cc_commit"
  /\ \E ok \in BOOLEAN :
       LET commit_date == commit_dates[date_idx + 1]
           commit_datetime ==
             CommitDateTime(commit_date, commit_num, commits_per_date)
           lastOfDate == commit_num + 1 >= commits_per_date
           lastDate == date_idx + 1 >= Len(commit_dates)
       IN  /\ hist' = Git(hist, "commit", ok)
           /\ repo' = IF ok
                        THEN [repo EXCEPT !.commits =
                                Append(@, [branch |-> repo.current,
                                           of |-> commit_date,
                                           at |-> commit_datetime])]
                        ELSE repo
           /\ IF ~ok
                THEN UNCHANGED << date_idx, commit_num >>
                ELSE IF ~lastOfDate
                  THEN commit_num' = commit_num + 1 /\ UNCHANGED date_idx
                  ELSE commit_num' = 0 /\ date_idx' = date_idx + 1
           /\ pc' = Uncaught(ok, IF lastOfDate /\ lastDate
                                   THEN "cc_done" ELSE "cc_add")
  /\ UNCHANGED << args, clock, objVars, runVars, branch_name, commit_counter,
                  clearVars >>

CreateCommits_Done ==
  /\ pc = "cc_done"
  /\ hist' = Say(hist, "Successfully created commits")
  /\ pc' = "run_done"
  /\ UNCHANGED << args, clock, objVars, runVars, branch_name, loopVars, repo,
                  clearVars >>

(***************************************************************************)
(* GitHubWordDrawer.clear_word_branches.                                   *)
(***************************************************************************)
\* except subprocess.CalledProcessError around the whole function:
\* print, sys.exit(1)
ClearError(ok, next) == IF ok THEN next ELSE "exit1"

\* [line.strip().lstrip('* ') for line in result.stdout.splitlines()]
ParseBranches(stdout) ==
  LET lines == SplitLines(stdout)
  IN  [i \in DOMAIN lines |-> LStripChars(Strip(lines[i]), { "*", " " })]

IsWordBranch(branch) == StartsWith(branch, WordPrefix)

\* faulty variant: the checked-out branch is never left
NeedsSwitchNever(current_branch_) == FALSE

\* if current_branch.startswith('word-'): leave it before deleting
NeedsSwitch(current_branch_) == StartsWith(current_branch_, WordPrefix)

Clear_List ==
  /\ pc = "clear_list"
  /\ \E ok \in BOOLEAN :
       LET branches == ParseBranches(GitBranchStdout(repo))
           found == SelectSeq(branches, IsWordBranch)
       IN  /\ hist' = Git(hist, "branch", ok)
           /\ word_branches' = IF ok THEN found ELSE word_branches
           /\ pc' = ClearError(ok, IF found = << >> THEN "returned"
                                   ELSE "clear_prompt")
  /\ UNCHANGED << args, clock, objVars, runVars, branch_name, loopVars, repo,
                  current_branch, branch_idx, deleted_count >>

Clear_Prompt ==
  /\ pc = "clear_prompt"
  /\ \E answer \in ResponseChoices :
       /\ hist' = Answered(hist, answer)
       /\ pc' = IF Confirmed(answer) THEN "clear_current" ELSE "returned"
  /\ UNCHANGED << args, clock, objVars, runVars, branch_name, loopVars, repo,
                  clearVars >>

Clear_ShowCurrent ==
  /\ pc = "clear_current"
  /\ \E ok \in BOOLEAN :
       LET shown == Strip(GitShowCurrentStdout(repo))
       IN  /\ hist' = Git(hist, "branch --show-current", ok)
           /\ current_branch' = IF ok THEN shown ELSE current_branch
           /\ pc' = ClearError(ok, IF NeedsSwitch(shown) THEN "clear_master"
                                   ELSE "clear_delete")
  /\ UNCHANGED << args, clock, objVars, runVars, branch_name, loopVars, repo,
                  word_branches, branch_idx, deleted_count >>

\* git checkout <name>: on success HEAD is on that branch
CheckedOut(repo_, name) ==
  [repo_ EXCEPT !.branches = @ \cup {name}, !.current = name]

Clear_CheckoutMaster ==
  /\ pc = "clear_master"
  /\ \E ok \in BOOLEAN :
       /\ hist' = IF ok
                    THEN Say(Git(hist, "checkout master", ok),
                             "Switched to master")
                    ELSE Git(hist, "checkout master", ok)
       /\ repo' = IF ok THEN CheckedOut(repo, Master) ELSE repo
       /\ pc' = IF ok THEN "clear_delete" ELSE "clear_main"
  /\ UNCHANGED << args, clock, objVars, runVars, branch_name, loopVars,
                  clearVars >>

Clear_CheckoutMain ==
  /\ pc = "clear_main"
  /\ \E ok \in BOOLEAN :
       /\ hist' = IF ok
                    THEN Say(Git(hist, "checkout main", ok), "Switched to main")
                    ELSE Git(hist, "checkout main", ok)
       /\ repo' = IF ok THEN CheckedOut(repo, Main_) ELSE repo
       /\ pc' = IF ok THEN "clear_delete" ELSE "returned"
  /\ UNCHANGED << args, clock, objVars, runVars, branch_name, loopVars,
                  clearVars >>

\* one iteration of "for branch in word_branches": git branch -D; a failure
\* is printed and the loop goes on
Clear_Delete ==
  /\ pc = "clear_delete"
  /\ \E ok \in BOOLEAN :
       LET branch == word_branches[branch_idx + 1]
       IN  /\ ok => branch \in repo.branches /\ branch # repo.current
           /\ hist' =
                LET h == [Git(hist, "branch -D", ok) EXCEPT !.deleteLog =
                            Append(@, [target |-> branch,
                                       head |-> repo.current, ok |-> ok])]
                IN  IF ok THEN Say(h, "Deleted branch") ELSE h
           /\ repo' = IF ok THEN [repo EXCEPT !.branches = @ \ {branch}]
                      ELSE repo
           /\ deleted_count' = IF ok THEN deleted_count + 1 ELSE deleted_count
  /\ branch_idx' = branch_idx + 1
  /\ pc' = IF branch_idx + 1 >= Len(word_branches) THEN "clear_summary"
           ELSE "clear_delete"
  /\ UNCHANGED << args, clock, objVars, runVars, branch_name, loopVars,
                  word_branches, current_branch >>

Clear_Summary ==
  /\ pc = "clear_summary"
  /\ hist' = Say(hist, "Successfully deleted")
  /\ pc' = "returned"
  /\ UNCHANGED << args, clock, objVars, runVars, branch_name, loopVars, repo,
                  clearVars >>

(***************************************************************************)
(* Specifications.                                                         *)
(***************************************************************************)
Next ==
  \/ Main
  \/ NewDrawer
  \/ Run_CreateGrid
  \/ Run_GetCommitDates
  \/ Run_DrawPreview
  \/ Run_CheckDates
  \/ Run_Prompt
  \/ Run_Done
  \/ CreateBranch_List
  \/ CreateBranch_Checkout
  \/ CreateBranch_CheckoutNew
  \/ CreateCommits_Begin
  \/ CreateCommits_Add
  \/ CreateCommits_Commit
  \/ CreateCommits_Done
  \/ Clear_List
  \/ Clear_Prompt
  \/ Clear_ShowCurrent
  \/ Clear_CheckoutMaster
  \/ Clear_CheckoutMain
  \/ Clear_Delete
  \/ Clear_Summary

Spec == Init /\ [][Next]_vars

\* every weekday of the clock, with words of at most one character
InitClock ==
  \/ InitRun(Words(1), { << >> }, {1},
             FirstNowDay..(FirstNowDay + NumNowDays - 1))
  \/ InitClear

SpecClock == InitClock /\ [][Next]_vars

\* more commits per date than the day has hours
InitDense ==
  \/ InitRun(Words(1), { << >>, Sunday2024 }, {DenseCommitsPerDate},
             {FirstNowDay})
  \/ InitClear

SpecDense == InitDense /\ [][Next]_vars

(***************************************************************************)
(* Properties.                                                             *)
(***************************************************************************)
GridWidth == IF grid = << >> THEN 0 ELSE Len(grid[1])

\* the (row, column) pairs, 0-based, of the true cells of grid
TrueCells ==
  { cell \in (0..6) \X (0..(GridWidth - 1)) : grid[cell[1] + 1][cell[2] + 1] }

DateOfCell(cell) == AddDays(start_date, 7 * cell[2] + cell[1])

Occurrences(list, x) == Cardinality({ i \in DOMAIN list : list[i] = x })

\* C1: _get_commit_dates returns start_date + (7*c + r) days exactly once for
\* every true cell (r, c) of the grid and nothing else: no duplicates, and as
\* many dates as the grid has true cells.
C1_DatesAreTheTrueCells ==
  pc = "run_preview" =>
    /\ \A cell \in TrueCells : Occurrences(commit_dates, DateOfCell(cell)) = 1
    /\ \A i \in DOMAIN commit_dates :
         \E cell \in TrueCells : commit_dates[i] = DateOfCell(cell)
    /\ \A i, j \in DOMAIN commit_dates :
         i # j => commit_dates[i] # commit_dates[j]
    /\ Len(commit_dates) = Cardinality(TrueCells)

C1_Witness ==
  /\ pc = "run_preview"
  /\ GridWidth = 11
  /\ Len(commit_dates) > 20
  /\ \E cell \in TrueCells : cell[1] > 0 /\ cell[2] > 5

\* C2: the list returned by _get_commit_dates is in ascending date order and
\* holds no date earlier than the anchor start_date.
C2_DatesSortedFromAnchor ==
  pc = "run_preview" =>
    /\ \A i, j \in DOMAIN commit_dates :
         i < j => ~DtLess(commit_dates[j], commit_dates[i])
    /\ \A i \in DOMAIN commit_dates : ~DtLess(commit_dates[i], start_date)

C2_Witness ==
  /\ pc = "run_preview"
  /\ Len(commit_dates) >= 2
  /\ args.start_date = Wednesday2024
  /\ commit_dates[1].day < commit_dates[Len(commit_dates)].day

Supported(char) == char \in Range(UpperCase) \cup { " " }

RECURSIVE GlyphWidthSum(_)
GlyphWidthSum(word_) ==
  IF word_ = << >> THEN 0
  ELSE Len(LETTER_PATTERNS[Head(word_)][1]) + GlyphWidthSum(Tail(word_))

\* C3: for a word of N >= 1 supported characters (A-Z and space, after
\* upper-casing) _create_pattern_grid returns exactly 7 rows, all of the same
\* width: the sum of the glyph widths of the word's characters plus N - 1.
C3_GridShape ==
  (pc = "run_dates" /\ Len(word) >= 1
     /\ \A i \in DOMAIN word : Supported(word[i])) =>
    /\ Len(grid) = 7
    /\ \A row \in DOMAIN grid :
         Len(grid[row]) = GlyphWidthSum(word) + Len(word) - 1

C3_Witness ==
  /\ pc = "run_dates"
  /\ Len(word) = 2
  /\ \A i \in DOMAIN word : Supported(word[i])
  /\ args.word # word
  /\ Len(grid) = 7 /\ Len(grid[7]) = 11

\* the width of the block a character is drawn in: its glyph's, or the space
\* glyph's for a character outside the alphabet
BlockWidth(char) ==
  IF Supported(char) THEN Len(LETTER_PATTERNS[char][1])
  ELSE Len(LETTER_PATTERNS[" "][1])

RECURSIVE BlockStart(_, _)
\* the 0-based column where the block of the i-th character (0-based) starts
BlockStart(word_, i) ==
  IF i = 0 THEN 0
  ELSE BlockStart(word_, i - 1) + BlockWidth(word_[i]) + 1

\* C4: the glyphs appear left to right in word order with exactly one column
\* between adjacent glyphs and none after the last; a cell inside glyph i's
\* columns is true iff the glyph's bitmap is filled at that row and local
\* column; separator columns are false in all 7 rows; a character outside the
\* alphabet gives a block of the default glyph width with no true cell.
C4_GlyphLayout ==
  (pc = "run_dates" /\ word # << >>) =>
    /\ Len(grid) = 7
    /\ \A i \in 0..(Len(word) - 1) :
         LET char == word[i + 1]
             first == BlockStart(word, i)
         IN  /\ \A r \in 0..6 : \A col \in 0..(BlockWidth(char) - 1) :
                  grid[r + 1][first + col + 1] =
                    IF Supported(char)
                      THEN LETTER_PATTERNS[char][r + 1][col + 1] = FILLED
                      ELSE FALSE
             /\ i < Len(word) - 1 =>
                  \A r \in 0..6 : grid[r + 1][first + BlockWidth(char) + 1] = FALSE
             /\ i = Len(word) - 1 =>
                  \A r \in 0..6 : Len(grid[r + 1]) = first + BlockWidth(char)

C4_Witness ==
  /\ pc = "run_dates"
  /\ Len(word) = 2
  /\ ~Supported(word[1])
  /\ word[2] = "H"
  /\ grid[1][7] /\ ~grid[1][8] /\ grid[4][8]
  /\ \A r \in 1..7 : \A c \in 1..6 : ~grid[r][c]

CommitsOf(date) == { i \in DOMAIN repo.commits : repo.commits[i].of = date }

TimeOfDay(dt) == << dt.hour, dt.minute, dt.second >>

\* C5: for a multiplier M >= 1 and a date list of length L create_commits
\* makes exactly M*L commits, exactly M for each date, and the M commits of
\* one date carry pairwise distinct times of day within that calendar day.
C5_CommitsPerDateDistinctTimes ==
  (pc = "run_done" /\ commits_per_date >= 1) =>
    /\ Len(repo.commits) = commits_per_date * Len(commit_dates)
    /\ \A k \in DOMAIN commit_dates :
         LET mine == CommitsOf(commit_dates[k])
         IN  /\ Cardinality(mine) = commits_per_date
             /\ \A i \in mine :
                  /\ repo.commits[i].at.day = commit_dates[k].day
                  /\ repo.commits[i].at.hour \in 0..23
                  /\ repo.commits[i].at.minute \in 0..59
             /\ \A i, j \in mine :
                  i # j => TimeOfDay(repo.commits[i].at)
                             # TimeOfDay(repo.commits[j].at)

\* a character that renders as a blank glyph
Blank(char) ==
  Supported(char) =>
    \A r \in 1..7 : \A c \in DOMAIN LETTER_PATTERNS[char][r] :
      LETTER_PATTERNS[char][r][c] # FILLED

AllBlank(word_) == \A i \in DOMAIN word_ : Blank(word_[i])

\* C6: when the word is empty or all its characters render blank, there are
\* no commit dates and run() returns without a prompt and without creating
\* or checking out a branch, writing the file or committing, whatever
\* preview_only is.
C6_BlankWordDoesNothing ==
  (~args.clear_branches /\ pc # "start" /\ AllBlank(word)) =>
    /\ pc \in { "run_grid", "run_dates", "run_preview", "run_check",
                "returned", "raised", "exit1", "exit2" }
    /\ pc \in { "run_preview", "run_check", "returned" } =>
         commit_dates = << >>
    /\ hist.answer = "none"
    /\ hist.ran = {}
    /\ ~hist.wrote
    /\ repo = [branches |-> {Master, WordH}, current |-> Master,
               commits |-> << >>]

C6_Witness ==
  /\ pc = "returned"
  /\ ~args.preview
  /\ Len(word) = 2
  /\ AllBlank(word)
  /\ grid # << >>
  /\ hist = NoHistory

\* the git commands whose failure the code lets pass: the exit status of
\* "git branch --list" is never read, a failed "git checkout master" is
\* followed by "git checkout main", a failed "git branch -D" is printed and
\* the deletion loop continues
Tolerated == { "branch --list", "checkout master", "branch -D" }

\* C7 as stated: after a failed git command no further git command runs and
\* no success is reported.
C7_EveryFailureAborts == hist.ranAfter = {} /\ hist.saidAfter = {}

\* C7, amended: a failure of git checkout or git checkout -b in
\* create_branch, of git add or git commit in create_commits, of git branch,
\* git branch --show-current or git checkout main in clear_word_branches
\* ends the operation: no git command runs after it and no success is
\* reported; the first four end the program through sys.exit(1), add and
\* commit through the uncaught CalledProcessError, and checkout main by
\* returning after a warning.  Only "git branch --list", "git checkout
\* master" and "git branch -D" may fail and be followed by further commands
\* and success messages.
C7_CheckedFailuresAbort ==
  /\ hist.ranAfter \subseteq Tolerated
  /\ hist.saidAfter \subseteq Tolerated
  /\ hist.failures \cap { "checkout", "checkout -b", "branch",
                          "branch --show-current" } # {} => pc = "exit1"
  /\ hist.failures \cap { "add", "commit" } # {} => pc = "raised"
  /\ "checkout main" \in hist.failures => pc = "returned"

C7_Witness ==
  /\ pc = "raised"
  /\ "commit" \in hist.failures
  /\ Len(repo.commits) >= 1
  /\ date_idx >= 1
  /\ "Created branch" \in hist.reported

\* C8: with no start date given, the anchor of _parse_start_date is a Sunday,
\* at least 365 days before now, and the most recent such Sunday (fewer than
\* 372 days before now).
C8_DefaultAnchor ==
  (pc = "run_grid" /\ args.start_date = << >>) =>
    /\ start_date.day % 7 = 0
    /\ clock.day - start_date.day >= 365
    /\ clock.day - start_date.day < 372
    /\ TimeOfDay(start_date) = TimeOfDay(clock)

C8_Witness ==
  /\ pc = "run_grid"
  /\ args.start_date = << >>
  /\ clock.day - start_date.day = 365

\* C9: in run() a git command (branch creation or checkout, staging, commit)
\* runs only if preview_only is false, the date list is not empty and the
\* answer to the prompt, trimmed and lower-cased, is y; and every staging and
\* commit comes after create_branch has switched to the target branch (the
\* newest commit, in every state, is on that branch).
C9_SideEffectsNeedConsent ==
  ~args.clear_branches =>
    /\ (hist.ran # {} \/ hist.wrote \/ repo.commits # << >>) =>
         /\ ~args.preview
         /\ commit_dates # << >>
         /\ hist.answer = "yes"
    /\ (hist.ran \cap { "add", "commit" } # {} \/ hist.wrote) =>
         /\ hist.branchReady
         /\ repo.current = WordPrefix \o Replace(Lower(word), " ", "-")
    /\ repo.commits # << >> =>
         repo.commits[Len(repo.commits)].branch =
           WordPrefix \o Replace(Lower(word), " ", "-")

C9_Witness ==
  /\ ~args.clear_branches
  /\ pc = "returned"
  /\ Len(repo.commits) >= 2
  /\ "checkout" \in hist.ran
  /\ hist.answer = "yes"

HasWordPrefix(name) ==
  Len(name) >= 5 /\ SubSeq(name, 1, 5) = << "w","o","r","d","-" >>

\* C10: in clear_word_branches every git branch -D targets a branch whose
\* name starts with word-, runs only after the answer y, and never targets
\* the branch checked out at that moment: from a word- branch the function
\* first switches to master or else main, and if neither checkout succeeds
\* it returns having deleted nothing.
C10_SafeDeletion ==
  /\ \A i \in DOMAIN hist.deleteLog :
       LET del == hist.deleteLog[i]
       IN  /\ HasWordPrefix(del.target)
           /\ del.target # del.head
           /\ hist.answer = "yes"
           /\ HasWordPrefix(current_branch) =>
                /\ del.head \in { Master, Main_ }
                /\ { "Switched to master", "Switched to main" }
                     \cap hist.reported # {}
  /\ "checkout main" \in hist.failures =>
       /\ pc = "returned"
       /\ hist.deleteLog = << >>
       /\ "branch -D" \notin hist.ran

C10_Witness ==
  /\ pc = "returned"
  /\ Len(hist.deleteLog) = 2
  /\ hist.deleteLog[1].ok
  /\ HasWordPrefix(current_branch)
  /\ "checkout master" \in hist.failures
  /\ repo.current = Main_

=============================================================================
